------------------------------ MODULE Spec2Model ------------------------------
(***************************************************************************)
(* Model of the Panel screenshot utility (src/screenshot.py) and of the    *)
(* demo application's offloaded handler (src/demo_app.py).                 *)
(*                                                                         *)
(* A fixed number of calls of save_screenshot run concurrently.  A call is *)
(* issued by the click handler of screenshot_button (on the event-loop     *)
(* thread), by on_run through asyncio.to_thread (on a pool thread), or     *)
(* directly by application code (on an application thread).  Every call    *)
(* starts one worker thread that drives the headless browser.  The file    *)
(* system, the wall clock and the status pane are shared.                  *)
(*                                                                         *)
(* Errors range over the subclasses of Exception: the producer, the        *)
(* serializer, the path rewriting and every step of the rendering engine   *)
(* may raise one.                                                          *)
(***************************************************************************)
EXTENDS Integers, Sequences, FiniteSets, TLC

\* ------------------------------------------------------------------ bounds
NumCalls == 2          \* calls of save_screenshot in one behaviour
MaxClock == 1          \* the wall clock runs over the seconds 0..MaxClock

Calls == 1..NumCalls

\* A value that is no call.
NoCall == NumCalls + 1

\* ------------------------------------------------------------------- paths
\* A path is [abs, parts]; a component is [s, t], t being the second a
\* default file name was stamped with (0 for every other component).
Comp(s) == [s |-> s, t |-> 0]

Up == Comp("..")

Rel(parts) == [abs |-> FALSE, parts |-> parts]

Cwd == [abs |-> TRUE, parts |-> <<Comp("work")>>]

\* save_dir = "screenshots", the default of save_screenshot and of
\* screenshot_button
SaveDir == Rel(<<Comp("screenshots")>>)

\* filename=None
None == Rel(<<>>)

\* f"screenshot_{timestamp}.png" with timestamp = strftime("%Y%m%d_%H%M%S")
DefaultName(now) == Rel(<<[s |-> "screenshot_%Y%m%d_%H%M%S.png", t |-> now]>>)

\* os.path.join(a, b): an absolute b discards a
Join(a, b) == IF b.abs THEN b ELSE [abs |-> a.abs, parts |-> a.parts \o b.parts]

\* os.path.normpath on the components: ".." removes the component before it
\* and is dropped at the root
RECURSIVE NormParts(_, _)
NormParts(done, rest) ==
    IF rest = <<>> THEN done
    ELSE IF Head(rest) = Up
         THEN NormParts(IF done = <<>> THEN <<>>
                        ELSE SubSeq(done, 1, Len(done) - 1), Tail(rest))
         ELSE NormParts(Append(done, Head(rest)), Tail(rest))

\* os.path.abspath(p) = normpath(join(getcwd(), p))
Abspath(p) == [abs |-> TRUE, parts |-> NormParts(<<>>, Join(Cwd, p).parts)]

\* p lies inside the directory d (both absolute and normalised)
Inside(p, d) ==
    /\ Len(p.parts) > Len(d.parts)
    /\ SubSeq(p.parts, 1, Len(d.parts)) = d.parts

\* The file names callers pass: two plain names and one that climbs out of
\* the directory.
ExplicitNames ==
    { Rel(<<Comp("a.png")>>), Rel(<<Comp("b.png")>>),
      Rel(<<Up, Comp("a.png")>>) }

\* The names tempfile.mkstemp draws from, "tmp<n>.html": one per call is
\* enough for it to always find a free one.
TmpNames == { [s |-> "tmp.html", t |-> n] : n \in Calls }

\* ------------------------------------------------------------------ errors
NoErr == [at |-> "none", by |-> NoCall]

Err(at, c) == [at |-> at, by |-> c]

\* ----------------------------------------------------------------- threads
LoopThread == <<"loop", 0>>

PoolThread(c) == <<"pool", c>>

AppThread(c) == <<"app", c>>

WorkerThread(c) == <<"worker", c>>

NoThread == <<"none", 0>>

VARIABLES
    now,        \* datetime.now(), in seconds
    dirs,       \* the directories that exist
    files,      \* the files that exist: records [path, kind, by]
    status,     \* the Alert pane of screenshot_button
    loopCur,    \* the call the event-loop thread is inside of, or NoCall
    pc,         \* per call: position of save_screenshot
    origin,     \* per call: who issued it
    caller,     \* per call: the thread that called save_screenshot
    layout,     \* per call: "callable" or "concrete"
    filename,   \* per call: the filename argument
    output_path,
    tmp_html_path,
    error,      \* per call: error[0], the single-slot holder
    pending,    \* per call: the exception travelling up the call
    wpc,        \* per call: position of the worker thread
    wthread,    \* per call: the thread that runs _render
    handler,    \* per call: position of the handler that issued it
    hist        \* per call: what the call has done to the file system

vars == <<now, dirs, files, status, loopCur, pc, origin, caller, layout,
          filename, output_path, tmp_html_path, error, pending, wpc, wthread,
          handler, hist>>

callVars == <<origin, caller, layout, filename>>

NoPath == Rel(<<Comp("")>>)

\* status = pn.pane.Alert("", alert_type="info", visible=False)
Idle ==
    [visible |-> FALSE, alert_type |-> "info", text |-> "", path |-> NoPath,
     err |-> NoErr]

NoHist == [dir |-> 0, tmpMade |-> 0, tmpGone |-> 0, png |-> 0,
           producer |-> 0, workers |-> 0]

Init ==
    /\ now = 0
    /\ dirs = {Cwd}
    /\ files = {}
    /\ status = Idle
    /\ loopCur = NoCall
    /\ pc = [c \in Calls |-> "idle"]
    /\ origin = [c \in Calls |-> "none"]
    /\ caller = [c \in Calls |-> NoThread]
    /\ layout = [c \in Calls |-> "concrete"]
    /\ filename = [c \in Calls |-> None]
    /\ output_path = [c \in Calls |-> NoPath]
    /\ tmp_html_path = [c \in Calls |-> None]
    /\ error = [c \in Calls |-> NoErr]
    /\ pending = [c \in Calls |-> NoErr]
    /\ wpc = [c \in Calls |-> "unborn"]
    /\ wthread = [c \in Calls |-> NoThread]
    /\ handler = [c \in Calls |-> "none"]
    /\ hist = [c \in Calls |-> NoHist]

\* ------------------------------------------------------------- file system
Exists(p) == \E f \in files : f.path = p

\* open(p, "w") ... write, or the engine's write of a screenshot: the file at
\* p is created, or replaced when there is one
WriteFile(p, kind, c) ==
    {f \in files : f.path # p} \cup {[path |-> p, kind |-> kind, by |-> c]}

\* os.unlink(p)
Unlink(p) == {f \in files : f.path # p}

Parent(p) == [abs |-> p.abs, parts |-> SubSeq(p.parts, 1, Len(p.parts) - 1)]

Ended(c) == pc[c] \in {"returned", "raised"}

Running(c) == pc[c] \notin {"idle", "returned", "raised"}

Bump(c, field) == [hist EXCEPT ![c][field] = @ + 1]

\* --------------------------------------------------------- issuing a call
\* save_screenshot(layout, save_dir, filename) is entered on thread thr.
\* Slots are used in order.
Enter(c, org, thr, lay, fn) ==
    /\ pc[c] = "idle"
    /\ \A d \in Calls : d < c => pc[d] # "idle"
    /\ pc' = [pc EXCEPT ![c] = "resolve"]
    /\ origin' = [origin EXCEPT ![c] = org]
    /\ caller' = [caller EXCEPT ![c] = thr]
    /\ layout' = [layout EXCEPT ![c] = lay]
    /\ filename' = [filename EXCEPT ![c] = fn]

\* A programmatic call from application code, save_screenshot(app,
\* filename=fn).  (The handlers below pass a producer and no file name.)
Direct(c) ==
    /\ \E fn \in ExplicitNames : Enter(c, "direct", AppThread(c), "concrete", fn)
    /\ UNCHANGED <<now, dirs, files, status, loopCur, output_path,
                   tmp_html_path, error, pending, wpc, wthread, handler, hist>>
\* The producer called after the directory has been made (and then once
\* more by the serializer's caller when it succeeds).
ResolveLate(c) ==
    /\ pc[c] = "resolve"
    /\ dirs' = dirs \cup {Abspath(SaveDir)}
    /\ IF layout[c] = "callable"
       THEN /\ hist' = [hist EXCEPT ![c]["producer"] = @ + 1,
                                    ![c]["dir"] = IF Abspath(SaveDir) \in dirs
                                                  THEN @ ELSE @ + 1]
            /\ \E ok \in BOOLEAN :
                  IF ok
                  THEN /\ pc' = [pc EXCEPT ![c] = "name"]
                       /\ UNCHANGED pending
                  ELSE /\ pc' = [pc EXCEPT ![c] = "raised"]
                       /\ pending' = [pending EXCEPT ![c] = Err("producer", c)]
       ELSE /\ pc' = [pc EXCEPT ![c] = "name"]
            /\ UNCHANGED <<pending, hist>>
    /\ UNCHANGED <<now, files, status, loopCur, callVars, output_path,
                   tmp_html_path, error, wpc, wthread, handler>>

\* ------------------------------------------------------- save_screenshot
\* target = layout() if callable(layout) else layout
Resolve(c) ==
    /\ pc[c] = "resolve"
    /\ IF layout[c] = "callable"
       THEN /\ hist' = Bump(c, "producer")
            /\ \E ok \in BOOLEAN :
                  IF ok
                  THEN /\ pc' = [pc EXCEPT ![c] = "makedirs"]
                       /\ UNCHANGED pending
                  ELSE /\ pc' = [pc EXCEPT ![c] = "raised"]
                       /\ pending' = [pending EXCEPT ![c] = Err("producer", c)]
       ELSE /\ pc' = [pc EXCEPT ![c] = "makedirs"]
            /\ UNCHANGED <<pending, hist>>
    /\ UNCHANGED <<now, dirs, files, status, loopCur, callVars, output_path,
                   tmp_html_path, error, wpc, wthread, handler>>
\* The directory is taken to exist.
MakedirsSkipped(c) ==
    /\ pc[c] = "makedirs"
    /\ pc' = [pc EXCEPT ![c] = "name"]
    /\ UNCHANGED <<now, dirs, files, status, loopCur, callVars, output_path,
                   tmp_html_path, error, pending, wpc, wthread, handler,
                   hist>>

\* os.makedirs(save_dir, exist_ok=True)
Makedirs(c) ==
    /\ pc[c] = "makedirs"
    /\ dirs' = dirs \cup {Abspath(SaveDir)}
    /\ hist' = IF Abspath(SaveDir) \in dirs THEN hist ELSE Bump(c, "dir")
    /\ pc' = [pc EXCEPT ![c] = "name"]
    /\ UNCHANGED <<now, files, status, loopCur, callVars, output_path,
                   tmp_html_path, error, pending, wpc, wthread, handler>>
\* The filename argument is ignored: every output gets the default name.
OutputPathDefaultOnly(fn, t) == Abspath(Join(SaveDir, DefaultName(t)))

\* output_path = os.path.abspath(os.path.join(save_dir, filename))
OutputPath(fn, t) ==
    Abspath(Join(SaveDir, IF fn = None THEN DefaultName(t) ELSE fn))

ComputeName(c) ==
    /\ pc[c] = "name"
    /\ output_path' = [output_path EXCEPT ![c] = OutputPath(filename[c], now)]
    /\ pc' = [pc EXCEPT ![c] = "mkstemp"]
    /\ UNCHANGED <<now, dirs, files, status, loopCur, callVars,
                   tmp_html_path, error, pending, wpc, wthread, handler, hist>>
\* A name drawn without looking at what exists.
FreeTmpAny == {Join(Abspath(SaveDir), Rel(<<n>>)) : n \in TmpNames}

\* The names mkstemp may return: those of no existing file.
FreeTmp == {p \in {Join(Abspath(SaveDir), Rel(<<n>>)) : n \in TmpNames} :
               ~Exists(p)}

\* fd, tmp_html_path = tempfile.mkstemp(suffix=".html", dir=save_dir)
Mkstemp(c) ==
    /\ pc[c] = "mkstemp"
    /\ \E p \in FreeTmp :
          /\ files' = WriteFile(p, "html", c)
          /\ tmp_html_path' = [tmp_html_path EXCEPT ![c] = p]
    /\ hist' = Bump(c, "tmpMade")
    /\ pc' = [pc EXCEPT ![c] = "save"]
    /\ UNCHANGED <<now, dirs, status, loopCur, callVars, output_path, error,
                   pending, wpc, wthread, handler>>
\* The try without its finally: the exception leaves the call at once.
RaiseNoCleanup(c, at) ==
    /\ pending' = [pending EXCEPT ![c] = Err(at, c)]
    /\ pc' = [pc EXCEPT ![c] = "raised"]

\* An exception raised inside the try block: control goes to the finally.
Raise(c, at) ==
    /\ pending' = [pending EXCEPT ![c] = Err(at, c)]
    /\ pc' = [pc EXCEPT ![c] = "finally"]

\* target.save(tmp_html_path, resources=INLINE)
Save(c) ==
    /\ pc[c] = "save"
    /\ \E ok \in BOOLEAN :
          IF ok
          THEN /\ files' = WriteFile(tmp_html_path[c], "saved", c)
               /\ pc' = [pc EXCEPT ![c] = "fix"]
               /\ UNCHANGED pending
          ELSE /\ Raise(c, "save")
               /\ UNCHANGED files
    /\ UNCHANGED <<now, dirs, status, loopCur, callVars, output_path,
                   tmp_html_path, error, wpc, wthread, handler,
                   hist>>

\* _fix_panel_css_paths(tmp_html_path); os.path.getsize(tmp_html_path)
FixPaths(c) ==
    /\ pc[c] = "fix"
    /\ \E ok \in {b \in BOOLEAN : b => Exists(tmp_html_path[c])} :
          IF ok
          THEN /\ files' = WriteFile(tmp_html_path[c], "fixed", c)
               /\ pc' = [pc EXCEPT ![c] = "thread"]
               /\ UNCHANGED pending
          ELSE /\ Raise(c, "fix")
               /\ UNCHANGED files
    /\ UNCHANGED <<now, dirs, status, loopCur, callVars, output_path,
                   tmp_html_path, error, wpc, wthread, handler,
                   hist>>
\* The worker started and not joined: the call goes on to its end.
StartThreadNoJoin(c) ==
    /\ pc[c] = "thread"
    /\ error' = [error EXCEPT ![c] = NoErr]
    /\ wthread' = [wthread EXCEPT ![c] = WorkerThread(c)]
    /\ wpc' = [wpc EXCEPT ![c] = "playwright"]
    /\ hist' = Bump(c, "workers")
    /\ pc' = [pc EXCEPT ![c] = "finally"]
    /\ UNCHANGED <<now, dirs, files, status, loopCur, callVars, output_path,
                   tmp_html_path, pending, handler>>

\* error = [None]; t = threading.Thread(target=_render); t.start()
StartThread(c) ==
    /\ pc[c] = "thread"
    /\ error' = [error EXCEPT ![c] = NoErr]
    /\ wthread' = [wthread EXCEPT ![c] = WorkerThread(c)]
    /\ wpc' = [wpc EXCEPT ![c] = "playwright"]
    /\ hist' = Bump(c, "workers")
    /\ pc' = [pc EXCEPT ![c] = "join"]
    /\ UNCHANGED <<now, dirs, files, status, loopCur, callVars, output_path,
                   tmp_html_path, pending, handler>>
\* The caller polling for the output file instead of joining the thread.
JoinPollsForPng(c) ==
    /\ pc[c] = "join"
    /\ \E f \in files : f.path = output_path[c] /\ f.kind = "png"
    /\ pending' = [pending EXCEPT ![c] = error[c]]
    /\ pc' = [pc EXCEPT ![c] = "finally"]
    /\ UNCHANGED <<now, dirs, files, status, loopCur, callVars, output_path,
                   tmp_html_path, error, wpc, wthread, handler, hist>>

\* t.join(timeout=0): the holder is read whether or not the worker has ended.
JoinNoWait(c) ==
    /\ pc[c] = "join"
    /\ pending' = [pending EXCEPT ![c] = error[c]]
    /\ pc' = [pc EXCEPT ![c] = "finally"]
    /\ UNCHANGED <<now, dirs, files, status, loopCur, callVars, output_path,
                   tmp_html_path, error, wpc, wthread, handler, hist>>

\* A second attempt after a failed one: a new worker is started once.
JoinRetry(c) ==
    /\ pc[c] = "join"
    /\ wpc[c] = "done"
    /\ IF error[c] # NoErr /\ hist[c].workers < 2
       THEN /\ error' = [error EXCEPT ![c] = NoErr]
            /\ wpc' = [wpc EXCEPT ![c] = "playwright"]
            /\ hist' = Bump(c, "workers")
            /\ UNCHANGED <<pending, pc>>
       ELSE /\ pending' = [pending EXCEPT ![c] = error[c]]
            /\ pc' = [pc EXCEPT ![c] = "finally"]
            /\ UNCHANGED <<error, wpc, hist>>
    /\ UNCHANGED <<now, dirs, files, status, loopCur, callVars, output_path,
                   tmp_html_path, wthread, handler>>

\* The join without the check of the holder: the call returns whatever the
\* worker did.
JoinNoCheck(c) ==
    /\ pc[c] = "join"
    /\ wpc[c] = "done"
    /\ pc' = [pc EXCEPT ![c] = "finally"]
    /\ UNCHANGED <<now, dirs, files, status, loopCur, callVars, output_path,
                   tmp_html_path, error, pending, wpc, wthread, handler,
                   hist>>

\* t.join(); if error[0]: raise error[0]; return output_path
JoinThread(c) ==
    /\ pc[c] = "join"
    /\ wpc[c] = "done"
    /\ pending' = [pending EXCEPT ![c] = error[c]]
    /\ pc' = [pc EXCEPT ![c] = "finally"]
    /\ UNCHANGED <<now, dirs, files, status, loopCur, callVars, output_path,
                   tmp_html_path, error, wpc, wthread, handler,
                   hist>>
\* Cleanup written after the return instead of in a finally: an exception
\* skips it.
CleanupNoFinally(c) ==
    /\ pc[c] = "finally"
    /\ IF pending[c] = NoErr /\ tmp_html_path[c] # None
          /\ Exists(tmp_html_path[c])
       THEN /\ files' = Unlink(tmp_html_path[c])
            /\ hist' = Bump(c, "tmpGone")
       ELSE UNCHANGED <<files, hist>>
    /\ pc' = [pc EXCEPT ![c] = IF pending[c] = NoErr THEN "returned"
                                                     ELSE "raised"]
    /\ UNCHANGED <<now, dirs, status, loopCur, callVars, output_path,
                   tmp_html_path, error, pending, wpc, wthread, handler>>

\* finally: if tmp_html_path and os.path.exists(tmp_html_path):
\*              os.unlink(tmp_html_path)
\* and the call ends: it returns output_path, or raises the pending error.
Cleanup(c) ==
    /\ pc[c] = "finally"
    /\ IF tmp_html_path[c] # None /\ Exists(tmp_html_path[c])
       THEN /\ files' = Unlink(tmp_html_path[c])
            /\ hist' = Bump(c, "tmpGone")
       ELSE UNCHANGED <<files, hist>>
    /\ pc' = [pc EXCEPT ![c] = IF pending[c] = NoErr THEN "returned"
                                                     ELSE "raised"]
    /\ UNCHANGED <<now, dirs, status, loopCur, callVars, output_path,
                   tmp_html_path, error, pending, wpc, wthread, handler>>

\* ------------------------------------------- _render on the worker thread
\* The steps of _render_html_to_png in order; "done" is the thread's end.
RenderSteps == <<"playwright", "launch", "new_page", "goto", "wait",
                 "screenshot", "close", "done">>

StepAfter(s) ==
    LET i == CHOOSE j \in 1..Len(RenderSteps) : RenderSteps[j] = s
    IN  RenderSteps[i + 1]

\* except Exception as e: error[0] = e
Caught(c, at) ==
    /\ error' = [error EXCEPT ![c] = Err(at, c)]
    /\ wpc' = [wpc EXCEPT ![c] = "done"]

\* sync_playwright().__enter__, chromium.launch, browser.new_page,
\* page.wait_for_timeout(2000), browser.close: no effect on the files
EngineStep(c) ==
    /\ wpc[c] \in {"playwright", "launch", "new_page", "wait", "close"}
    /\ \E ok \in BOOLEAN :
          IF ok
          THEN /\ wpc' = [wpc EXCEPT ![c] = StepAfter(wpc[c])]
               /\ UNCHANGED error
          ELSE Caught(c, wpc[c])
    /\ UNCHANGED <<now, dirs, files, status, loopCur, pc, callVars,
                   output_path, tmp_html_path, pending, wthread, handler, hist>>

\* page.goto(f"file://{html_path}", wait_until="networkidle"): navigation
\* fails when the document is not there
Goto(c) ==
    /\ wpc[c] = "goto"
    /\ \E ok \in {b \in BOOLEAN : b => Exists(tmp_html_path[c])} :
          IF ok
          THEN /\ wpc' = [wpc EXCEPT ![c] = StepAfter("goto")]
               /\ UNCHANGED error
          ELSE Caught(c, "goto")
    /\ UNCHANGED <<now, dirs, files, status, loopCur, pc, callVars,
                   output_path, tmp_html_path, pending, wthread, handler, hist>>
\* An engine that leaves what it had written when the screenshot fails.
ScreenshotPartial(c) ==
    /\ wpc[c] = "screenshot"
    /\ files' = WriteFile(output_path[c], "png", c)
    /\ dirs' = dirs \cup {Parent(output_path[c])}
    /\ hist' = Bump(c, "png")
    /\ \E ok \in BOOLEAN :
          IF ok
          THEN /\ wpc' = [wpc EXCEPT ![c] = StepAfter("screenshot")]
               /\ UNCHANGED error
          ELSE Caught(c, "screenshot")
    /\ UNCHANGED <<now, status, loopCur, pc, callVars, output_path,
                   tmp_html_path, pending, wthread, handler>>

\* An engine that waits for the output path to be free instead of replacing
\* the file there.
ScreenshotNoOverwrite(c) ==
    /\ wpc[c] = "screenshot"
    /\ ~Exists(output_path[c])
    /\ \E ok \in BOOLEAN :
          IF ok
          THEN /\ files' = WriteFile(output_path[c], "png", c)
               /\ dirs' = dirs \cup {Parent(output_path[c])}
               /\ hist' = Bump(c, "png")
               /\ wpc' = [wpc EXCEPT ![c] = StepAfter("screenshot")]
               /\ UNCHANGED error
          ELSE /\ Caught(c, "screenshot")
               /\ UNCHANGED <<files, dirs, hist>>
    /\ UNCHANGED <<now, status, loopCur, pc, callVars, output_path,
                   tmp_html_path, pending, wthread, handler>>

\* page.screenshot(path=output_path, full_page=True): the engine writes the
\* whole image (making the parent directory when needed) or nothing
Screenshot(c) ==
    /\ wpc[c] = "screenshot"
    /\ \E ok \in BOOLEAN :
          IF ok
          THEN /\ files' = WriteFile(output_path[c], "png", c)
               /\ dirs' = dirs \cup {Parent(output_path[c])}
               /\ hist' = Bump(c, "png")
               /\ wpc' = [wpc EXCEPT ![c] = StepAfter("screenshot")]
               /\ UNCHANGED error
          ELSE /\ Caught(c, "screenshot")
               /\ UNCHANGED <<files, dirs, hist>>
    /\ UNCHANGED <<now, status, loopCur, pc, callVars, output_path,
                   tmp_html_path, pending, wthread, handler>>

\* ------------------------------------------------ screenshot_button.on_click
InProgress ==
    [visible |-> TRUE, alert_type |-> "info", text |-> "Taking screenshot...",
     path |-> NoPath, err |-> NoErr]

\* f"Saved: {abs_path}"
Saved(p) ==
    [visible |-> TRUE, alert_type |-> "success", text |-> "Saved: ",
     path |-> p, err |-> NoErr]

\* f"Error: {e}"
Failed(e) ==
    [visible |-> TRUE, alert_type |-> "danger", text |-> "Error: ",
     path |-> NoPath, err |-> e]

\* The loop dispatches a click of the button: the status becomes
\* in-progress and save_screenshot(layout, save_dir=save_dir) is entered on
\* the loop's own thread.
OnClick(c) ==
    /\ loopCur = NoCall
    /\ status' = InProgress
    /\ loopCur' = c
    /\ handler' = [handler EXCEPT ![c] = "in_try"]
    /\ Enter(c, "on_click", LoopThread, "callable", None)
    /\ UNCHANGED <<now, dirs, files, output_path, tmp_html_path, error,
                   pending, wpc, wthread, hist>>
\* The handler without its except branch: the error leaves on_click and the
\* status stays as it was.
OnClickEndNoExcept(c) ==
    /\ loopCur = c
    /\ handler[c] = "in_try"
    /\ Ended(c)
    /\ status' = IF pc[c] = "returned" THEN Saved(output_path[c]) ELSE status
    /\ handler' = [handler EXCEPT ![c] = IF pc[c] = "returned" THEN "done"
                                                                ELSE "raised"]
    /\ loopCur' = NoCall
    /\ UNCHANGED <<now, dirs, files, pc, callVars, output_path,
                   tmp_html_path, error, pending, wpc, wthread, hist>>

\* The except branch that only logs: the status is not updated.
OnClickEndStale(c) ==
    /\ loopCur = c
    /\ handler[c] = "in_try"
    /\ Ended(c)
    /\ status' = IF pc[c] = "returned" THEN Saved(output_path[c]) ELSE status
    /\ handler' = [handler EXCEPT ![c] = "done"]
    /\ loopCur' = NoCall
    /\ UNCHANGED <<now, dirs, files, pc, callVars, output_path,
                   tmp_html_path, error, pending, wpc, wthread, hist>>

\* The call has ended: the success branch, or except Exception as e.
OnClickEnd(c) ==
    /\ loopCur = c
    /\ handler[c] = "in_try"
    /\ Ended(c)
    /\ status' = IF pc[c] = "returned" THEN Saved(output_path[c])
                                        ELSE Failed(pending[c])
    /\ handler' = [handler EXCEPT ![c] = "done"]
    /\ loopCur' = NoCall
    /\ UNCHANGED <<now, dirs, files, pc, callVars, output_path,
                   tmp_html_path, error, pending, wpc, wthread,
                   hist>>
\* on_run calling save_screenshot itself, without asyncio.to_thread.
OnRunBlocking(c) ==
    /\ loopCur = NoCall
    /\ loopCur' = c
    /\ handler' = [handler EXCEPT ![c] = "awaiting"]
    /\ Enter(c, "on_run", LoopThread, "callable", None)
    /\ UNCHANGED <<now, dirs, files, status, output_path, tmp_html_path,
                   error, pending, wpc, wthread, hist>>

\* ------------------------------------------------------- demo_app.on_run
\* path = await asyncio.to_thread(save_screenshot, lambda: app): the call
\* runs on a thread of the default executor and the coroutine is suspended.
OnRun(c) ==
    /\ loopCur = NoCall
    /\ handler' = [handler EXCEPT ![c] = "awaiting"]
    /\ Enter(c, "on_run", PoolThread(c), "callable", None)
    /\ UNCHANGED <<now, dirs, files, status, loopCur, output_path,
                   tmp_html_path, error, pending, wpc, wthread,
                   hist>>

\* The loop resumes the coroutine: print(...) when the call returned, and
\* the call's exception leaves on_run when it raised.
OnRunResume(c) ==
    /\ loopCur = NoCall
    /\ handler[c] = "awaiting"
    /\ Ended(c)
    /\ handler' = [handler EXCEPT ![c] = IF pc[c] = "returned" THEN "done"
                                                                ELSE "raised"]
    /\ UNCHANGED <<now, dirs, files, status, loopCur, pc, callVars,
                   output_path, tmp_html_path, error, pending, wpc, wthread, hist>>

\* A second passes.
Tick ==
    /\ now < MaxClock
    /\ now' = now + 1
    /\ UNCHANGED <<dirs, files, status, loopCur, pc, callVars, output_path,
                   tmp_html_path, error, pending, wpc, wthread, handler, hist>>

Next ==
    \/ Tick
    \/ \E c \in Calls :
          \/ Direct(c) \/ OnClick(c) \/ OnRun(c)
          \/ Resolve(c) \/ Makedirs(c) \/ ComputeName(c) \/ Mkstemp(c)
          \/ Save(c) \/ FixPaths(c) \/ StartThread(c) \/ JoinThread(c)
          \/ Cleanup(c)
          \/ EngineStep(c) \/ Goto(c) \/ Screenshot(c)
          \/ OnClickEnd(c) \/ OnRunResume(c)

Spec == Init /\ [][Next]_vars

\* The steps of save_screenshot on the caller's thread, and those of _render
\* on the worker thread.
CallerStep(c) ==
    \/ Resolve(c) \/ Makedirs(c) \/ ComputeName(c) \/ Mkstemp(c) \/ Save(c)
    \/ FixPaths(c) \/ StartThread(c) \/ JoinThread(c) \/ Cleanup(c)

WorkerStep(c) == EngineStep(c) \/ Goto(c) \/ Screenshot(c)

\* A step of some capture, on whichever thread.
CaptureStep == \E c \in Calls : CallerStep(c) \/ WorkerStep(c)

\* Every step of Next but the tick of the clock: the captures and handlers of
\* one second, in which all default file names are the same.
OneSecondNext ==
    \E c \in Calls :
        \/ Direct(c) \/ OnClick(c) \/ OnRun(c)
        \/ Resolve(c) \/ Makedirs(c) \/ ComputeName(c) \/ Mkstemp(c)
        \/ Save(c) \/ FixPaths(c) \/ StartThread(c) \/ JoinThread(c)
        \/ Cleanup(c)
        \/ EngineStep(c) \/ Goto(c) \/ Screenshot(c)
        \/ OnClickEnd(c) \/ OnRunResume(c)

\* A thread that can run is scheduled, and a call into the framework or the
\* rendering engine comes back, with a result or an exception: as long as some
\* capture can take a step, some capture does.
FairSpec == Init /\ [][OneSecondNext]_vars /\ WF_vars(CaptureStep)

\* ------------------------------------------------- _fix_panel_css_paths
\* The text of a document is a sequence of tokens:
\*   "P"  the literal static/extensions/panel/ (it has no border, so two
\*        occurrences never overlap; its characters are path characters)
\*   "a"  any character other than a quote, a question mark or white space
\*   "?"  the question mark      "q"  a quote, " or '      "s"  white space
\*   "C"  f"{cdn_base}/", which only the rewriting writes
MaxDocLen == 4         \* documents have up to MaxDocLen tokens

Tokens == {"P", "a", "?", "q", "s"}

Docs == UNION {[1..n -> Tokens] : n \in 0..MaxDocLen}

\* [^"'?\s]
PathChar(t) == t \notin {"q", "?", "s"}

\* [^"']
QueryChar(t) == t # "q"

\* The last position of the longest run of tokens of a class that starts at
\* position i of doc (i - 1 when the run is empty): a greedy + or *.
RECURSIVE RunEnd(_, _, _)
RunEnd(doc, i, isPath) ==
    IF i <= Len(doc) /\ (IF isPath THEN PathChar(doc[i]) ELSE QueryChar(doc[i]))
    THEN RunEnd(doc, i + 1, isPath)
    ELSE i - 1

\* r"static/extensions/panel/([^\"'?\s]+)(\?[^\"']*)?" matches at position i
Matches(doc, i) ==
    /\ i < Len(doc)
    /\ doc[i] = "P"
    /\ PathChar(doc[i + 1])

\* group(1) of the match at i ends at PathEnd, the whole match at MatchEnd
PathEnd(doc, i) == RunEnd(doc, i + 1, TRUE)

MatchEnd(doc, i) ==
    LET j == PathEnd(doc, i)
    IN  IF j < Len(doc) /\ doc[j + 1] = "?" THEN RunEnd(doc, j + 2, FALSE)
                                             ELSE j

\* re.sub(pattern, lambda m: f"{cdn_base}/{m.group(1)}", html), from
\* position i on: the leftmost match is replaced and the scan goes on behind
\* it; a token that starts no match is copied.
RECURSIVE Sub(_, _)
Sub(doc, i) ==
    IF i > Len(doc) THEN <<>>
    ELSE IF Matches(doc, i)
         THEN <<"C">> \o SubSeq(doc, i + 1, PathEnd(doc, i))
                      \o Sub(doc, MatchEnd(doc, i) + 1)
         ELSE <<doc[i]>> \o Sub(doc, i + 1)

FixPanelCssPaths(html) == Sub(html, 1)

\* The temporary file of the one call this specification follows.
DocPath == Join(Abspath(SaveDir), Rel(<<[s |-> "tmp.html", t |-> 1]>>))

\* target.save(tmp_html_path, resources=INLINE) writes some document; src
\* remembers what it wrote.
SaveDoc ==
    /\ files = {}
    /\ \E html \in Docs :
          files' = {[path |-> DocPath, kind |-> "saved", by |-> 1,
                     src |-> html, text |-> html]}
    /\ UNCHANGED <<now, dirs, status, loopCur, pc, callVars, output_path,
                   tmp_html_path, error, pending, wpc, wthread, handler,
                   hist>>

\* _fix_panel_css_paths(html_path): read the file, substitute, write it back.
FixDoc ==
    /\ \E f \in files :
          /\ f.kind = "saved"
          /\ files' = {[f EXCEPT !.kind = "fixed",
                                 !.text = FixPanelCssPaths(f.text)]}
    /\ UNCHANGED <<now, dirs, status, loopCur, pc, callVars, output_path,
                   tmp_html_path, error, pending, wpc, wthread, handler,
                   hist>>

DocNext == SaveDoc \/ FixDoc

\* The serializer and the rewriting alone, over every document.
DocSpec == Init /\ [][DocNext]_vars

\* ------------------------------------------------------------------ claims
OutDir == Abspath(SaveDir)

\* The files call c has written and that are still there.
HtmlBy(c) == {f \in files : f.by = c /\ f.kind \in {"html", "saved", "fixed"}}

PngBy(c) == {f \in files : f.by = c /\ f.kind = "png"}

PngAt(p) == \E f \in files : f.path = p /\ f.kind = "png"

\* The steps of the engine that precede the end of the screenshot step.
UpToScreenshot == {"playwright", "launch", "new_page", "goto", "wait",
                   "screenshot"}

EngineErrors == UpToScreenshot \cup {"close"}

\* C1: once a call of save_screenshot has ended, by a return or by an
\* exception raised by the producer, the serializer, the path rewriting or the
\* engine, the temporary HTML file the call created does not exist.
C1_TempFileGone ==
    \A c \in Calls : Ended(c) => HtmlBy(c) = {}

\* C1 witness: a call that created its temporary file has raised the
\* engine's navigation error, and another has returned.
C1_Witness ==
    \E c, d \in Calls :
        /\ pc[c] = "raised" /\ pending[c].at = "goto" /\ hist[c].tmpMade = 1
        /\ pc[d] = "returned" /\ hist[d].tmpMade = 1

\* C2 as claimed: whenever save_screenshot returns, a PNG file exists at the
\* returned path and the path lies inside the output directory, for every
\* file name the caller passes.
C2_PngInsideOutputDir ==
    \A c \in Calls :
        pc[c] = "returned" =>
            /\ PngAt(output_path[c])
            /\ Inside(output_path[c], OutDir)

\* C3 as claimed: when the engine raises at any step, browser close
\* included, no PNG file is at the output path after the call has ended.
C3_NoPngAfterAnyEngineError ==
    \A c \in Calls :
        (pc[c] = "raised" /\ pending[c].at \in EngineErrors)
            => ~Exists(output_path[c])

\* C3 amended: when the engine raises at a step up to and including the
\* screenshot, the call has written no PNG file: after it has ended, no file
\* it wrote is at its output path.
C3_NoPngBeforeScreenshotDone ==
    \A c \in Calls :
        (Ended(c) /\ pending[c].at \in UpToScreenshot) =>
            /\ pc[c] = "raised"
            /\ hist[c].png = 0
            /\ PngBy(c) = {}

\* C3 witness: the screenshot step itself has failed and the call has raised.
C3_Witness ==
    \E c \in Calls : pc[c] = "raised" /\ pending[c].at = "screenshot"

\* C4: an exception the worker thread caught reaches the caller: the holder is
\* read only after the worker has ended, the call raises the very error the
\* holder has, and it never returns when the holder is set.
C4_WorkerErrorPropagated ==
    \A c \in Calls :
        /\ (wpc[c] = "done" /\ error[c] # NoErr /\ Ended(c)) =>
               (pc[c] = "raised" /\ pending[c] = error[c])
        /\ (pending[c].at \in EngineErrors) =>
               (wpc[c] = "done" /\ pending[c] = error[c])

\* C4 witness: the browser launch failed on the worker and the call raised.
C4_Witness ==
    \E c \in Calls :
        pc[c] = "raised" /\ error[c] = Err("launch", c) /\ pending[c] = error[c]

DistinctExplicit(c, d) ==
    /\ c # d
    /\ filename[c] # None /\ filename[d] # None
    /\ filename[c] # filename[d]
    /\ output_path[c] # NoPath /\ output_path[d] # NoPath

Collide(c, d) ==
    /\ c # d
    /\ filename[c] = None /\ filename[d] = None
    /\ output_path[c] # NoPath
    /\ output_path[c] = output_path[d]

\* The next step of call c, on its own thread or on its worker thread.
StepOf(c) ==
    \/ Save(c) \/ FixPaths(c) \/ Mkstemp(c) \/ StartThread(c) \/ JoinThread(c)
    \/ Cleanup(c) \/ EngineStep(c) \/ Goto(c) \/ Screenshot(c)

\* C7: when two captures without a file name have resolved to the same output
\* path, each of them has ended, by returning the path or by raising an error
\* of its own steps, or can take its next step: neither waits for the other;
\* and once one has returned there is a PNG at the shared path, written by one
\* of the two.
C7_CollisionEndsInReturnOrRaise ==
    \A c, d \in Calls :
        Collide(c, d) =>
            /\ Ended(c) \/ ENABLED StepOf(c)
            /\ pc[c] = "raised" => (pending[c] # NoErr /\ pending[c].by = c)
            /\ pc[c] = "returned" =>
                   \E f \in PngBy(c) \cup PngBy(d) : f.path = output_path[c]

\* C7 witness: the collision has happened between two captures that ran at
\* the same time (the one entered first took its screenshot last), and both
\* have returned the same path; the file there is the one the second
\* screenshot replaced the first with.
C7_Witness ==
    \E c, d \in Calls :
        /\ Collide(c, d)
        /\ d < c
        /\ pc[c] = "returned" /\ pc[d] = "returned"
        /\ hist[c].png = 1 /\ hist[d].png = 1
        /\ PngBy(c) = {} /\ PngBy(d) # {}

\* The clicks of the button so far, and the last of them.
Clicks == {c \in Calls : origin[c] = "on_click"}

LastClick == CHOOSE c \in Clicks : \A d \in Clicks : d <= c

\* C8: the status is idle until the first click; it is in-progress (visible,
\* info) from the moment a click is dispatched, before the capture starts,
\* until the handler ends; and after the handler has ended it is success with
\* the returned path exactly when the capture returned and failure with the
\* error exactly when it raised, never in-progress.
C8_StatusStateMachine ==
    /\ Clicks = {} => status = Idle
    /\ \A c \in Clicks :
          /\ handler[c] \in {"in_try", "done"}
          /\ handler[c] = "in_try" => (loopCur = c /\ status = InProgress)
          /\ handler[c] = "done" => Ended(c)
    /\ (Clicks # {} /\ handler[LastClick] = "done") =>
          /\ status # InProgress
          /\ pc[LastClick] = "returned" =>
                 status = Saved(output_path[LastClick])
          /\ pc[LastClick] = "raised" => status = Failed(pending[LastClick])
          /\ status.alert_type = "success" <=> pc[LastClick] = "returned"
          /\ status.alert_type = "danger" <=> pc[LastClick] = "raised"

\* C8 witness: a first click ended in failure, a second click reset the status
\* to in-progress and ended in success.
C8_Witness ==
    \E c, d \in Clicks :
        /\ c < d
        /\ pc[c] = "raised" /\ handler[c] = "done"
        /\ pc[d] = "returned" /\ handler[d] = "done"
        /\ status = Saved(output_path[d])

\* C9: whatever the capture raises, the end of the click handler turns it
\* into the failure status that carries the error, and the handler ends
\* without raising to the event loop.
C9_ClickHandlerNeverRaises ==
    [][\A c \in Calls :
          (handler[c] = "in_try" /\ handler'[c] # "in_try" /\ pc[c] = "raised")
              => /\ handler'[c] = "done"
                 /\ status' = Failed(pending[c])
                 /\ status'.visible
                 /\ loopCur' = NoCall]_vars

\* C9 witness: a capture started by a click raised the producer's error and
\* the handler has ended with the failure status.
C9_Witness ==
    \E c \in Clicks :
        /\ pc[c] = "raised" /\ pending[c].at = "producer"
        /\ handler[c] = "done"
        /\ status = Failed(Err("producer", c))

\* C10: a capture offloaded by on_run runs on no thread of the event loop
\* (neither its own steps nor its rasterization), and the loop is never
\* inside it, so the loop is free to dispatch; and under every calling
\* convention the rasterization runs on a thread other than the caller's.
C10_OffLoopAndOffCaller ==
    \A c \in Calls :
        /\ origin[c] = "on_run" =>
               /\ caller[c] # LoopThread
               /\ wthread[c] # LoopThread
               /\ loopCur # c
        /\ wpc[c] # "unborn" =>
               (wthread[c] # NoThread /\ wthread[c] # caller[c])
        /\ (loopCur # NoCall /\ Running(c) /\ loopCur # c) =>
               caller[c] # LoopThread

\* C10 witness: while an offloaded capture is rasterizing, the loop has
\* dispatched a click, whose capture is rasterizing too.
C10_Witness ==
    \E c, d \in Calls :
        /\ c < d
        /\ origin[c] = "on_run" /\ wpc[c] = "wait"
        /\ origin[d] = "on_click" /\ wpc[d] = "wait"

\* src is pre, one reference P path ? query, and rest: pre has no P, path is
\* the run of path characters, query the run up to the first quote or white
\* space, and rest, which starts there, has no P.
OneReference(src, i, j, k) ==
    /\ 1 <= i /\ i < j /\ j < k /\ k <= Len(src)
    /\ \A n \in 1..(i - 1) : src[n] # "P"
    /\ src[i] = "P"
    /\ \A n \in (i + 1)..j : PathChar(src[n])
    /\ src[j + 1] = "?"
    /\ \A n \in (j + 2)..k : src[n] \notin {"q", "s"}
    /\ k < Len(src) => src[k + 1] \in {"q", "s"}
    /\ \A n \in (k + 1)..Len(src) : src[n] # "P"

\* C11 as claimed: after the rewriting, a document without a reference is as
\* it was, and in a document with one reference P path ? query the reference
\* has become the CDN URL of the path, without the query string, and the text
\* before and behind it is as it was.
C11_RewritesReferenceOnly ==
    \A f \in files :
        f.kind = "fixed" =>
            /\ (\A n \in 1..Len(f.src) : f.src[n] # "P") => f.text = f.src
            /\ \A i, j, k \in 1..Len(f.src) :
                  OneReference(f.src, i, j, k) =>
                      f.text = SubSeq(f.src, 1, i - 1) \o <<"C">>
                                  \o SubSeq(f.src, i + 1, j)
                                  \o SubSeq(f.src, k + 1, Len(f.src))

\* What does hold: the same, for a reference whose query string ends at a
\* quote or with the document.
C11_QuoteTerminated ==
    \A f \in files :
        f.kind = "fixed" =>
            /\ (\A n \in 1..Len(f.src) : f.src[n] # "P") => f.text = f.src
            /\ \A i, j, k \in 1..Len(f.src) :
                  (OneReference(f.src, i, j, k)
                     /\ (k < Len(f.src) => f.src[k + 1] = "q")) =>
                      f.text = SubSeq(f.src, 1, i - 1) \o <<"C">>
                                  \o SubSeq(f.src, i + 1, j)
                                  \o SubSeq(f.src, k + 1, Len(f.src))

\* The worker thread of call c is running _render.
WorkerRunning(c) == wpc[c] \notin {"unborn", "done"}

\* C12: the holder is written at most once and only by the worker thread, as
\* the worker's last step; the caller creates it empty before the worker
\* exists and reads it only when the worker has ended.
C12_HolderHandoff ==
    [][\A c \in Calls :
          /\ error'[c] # error[c] =>
                 \/ WorkerRunning(c) /\ wpc'[c] = "done" /\ error[c] = NoErr
                       /\ error'[c].at = wpc[c] /\ error'[c].by = c
                 \/ pc[c] = "thread" /\ wpc[c] = "unborn" /\ error'[c] = NoErr
          /\ (pc[c] = "join" /\ pc'[c] # "join") =>
                 (wpc[c] = "done" /\ pending'[c] = error[c])
          /\ pending'[c] # pending[c] =>
                 (pending'[c].at \in EngineErrors => wpc[c] = "done")]_vars

\* C12 witness: the worker has written the holder, has ended, and the caller
\* has read the error out of it.
C12_Witness ==
    \E c \in Calls :
        /\ wpc[c] = "done" /\ error[c] = Err("wait", c)
        /\ pc[c] = "finally" /\ pending[c] = error[c]

\* C13: while the worker thread is running, the call is blocked in the join:
\* it has neither returned nor raised nor reached its cleanup, and the
\* temporary HTML file it made is there.
C13_BlockedWhileWorkerRuns ==
    \A c \in Calls :
        WorkerRunning(c) =>
            /\ pc[c] = "join"
            /\ \E f \in HtmlBy(c) : f.path = tmp_html_path[c]

\* C13 witness: the engine is taking the screenshot while the call waits.
C13_Witness ==
    \E c \in Calls : wpc[c] = "screenshot" /\ pc[c] = "join"

\* C14: when the serializer or the path rewriting fails, the call raises only
\* once its temporary file is gone, and it has started no worker thread and
\* written no PNG.
C14_EarlyFailureCleansUp ==
    \A c \in Calls :
        pending[c].at \in {"save", "fix"} =>
            /\ pc[c] \in {"finally", "raised"}
            /\ hist[c].workers = 0 /\ wpc[c] = "unborn"
            /\ hist[c].png = 0 /\ PngBy(c) = {}
            /\ pc[c] = "raised" => (HtmlBy(c) = {} /\ hist[c].tmpGone = 1)

\* C14 witness: the path rewriting failed and the call has raised.
C14_Witness ==
    \E c \in Calls :
        pc[c] = "raised" /\ pending[c].at = "fix" /\ hist[c].tmpMade = 1

\* C15: a call starts at most one worker thread, which goes through the
\* engine's steps once; a failed attempt ends the call with that one error,
\* and a call that has ended stays as it ended.
C15_NoRetry ==
    /\ [](\A c \in Calls :
             /\ hist[c].workers <= 1 /\ hist[c].png <= 1
             /\ (wpc[c] # "unborn") <=> (hist[c].workers = 1)
             /\ (Ended(c) /\ error[c] # NoErr) =>
                    (pc[c] = "raised" /\ pending[c] = error[c]))
    /\ [][\A c \in Calls :
             /\ wpc[c] = "done" => wpc'[c] = "done"
             /\ Ended(c) => (pc'[c] = pc[c] /\ pending'[c] = pending[c])]_vars

\* C15 witness: one failed attempt, one worker, the call has raised.
C15_Witness ==
    \E c \in Calls :
        /\ pc[c] = "raised" /\ pending[c].at = "new_page"
        /\ hist[c].workers = 1

\* C16: a producer is called exactly once, and before the call has touched
\* the file system; when it raises, the call raises having made no directory,
\* no temporary file, no worker thread and no PNG.  A layout that is no
\* producer is not called.
C16_ProducerFirstAndOnce ==
    \A c \in Calls :
        /\ pc[c] = "resolve" => hist[c] = NoHist
        /\ pc[c] \notin {"idle", "resolve"} =>
               hist[c].producer = (IF layout[c] = "callable" THEN 1 ELSE 0)
        /\ pending[c].at = "producer" =>
               /\ pc[c] = "raised"
               /\ hist[c] = [NoHist EXCEPT !["producer"] = 1]
               /\ tmp_html_path[c] = None /\ wpc[c] = "unborn"
               /\ HtmlBy(c) = {} /\ PngBy(c) = {}

\* C16 witness: the producer of the first call raised: the call has raised and
\* the output directory does not exist.
C16_Witness ==
    \E c \in Calls :
        /\ pc[c] = "raised" /\ pending[c].at = "producer"
        /\ OutDir \notin dirs

\* C17: a call of save_screenshot that has not ended is never stuck: its own
\* thread or its worker thread can take a step; and with threads scheduled
\* fairly and every step of the framework and of the engine coming back,
\* every call that was entered returns or raises.
C17_CaptureEnds ==
    /\ [](\A c \in Calls :
             Running(c) => ENABLED (CallerStep(c) \/ WorkerStep(c)))
    /\ \A c \in Calls : Running(c) ~> Ended(c)

\* C17 witness: a capture whose engine went through every step has returned,
\* and one whose engine failed has raised.
C17_Witness ==
    \E c, d \in Calls :
        /\ pc[c] = "returned" /\ wpc[c] = "done" /\ hist[c].png = 1
        /\ pc[d] = "raised" /\ wpc[d] = "done" /\ error[d].at = "playwright"

\* Call c holds a temporary file: from mkstemp to the cleanup.
HoldsTmp(c) == pc[c] \in {"save", "fix", "thread", "join", "finally"}

\* C18: two captures that hold a temporary file at the same time hold two
\* distinct files, each its own; and the only file a step ever removes is the
\* temporary file of the capture whose cleanup the step is: never another
\* capture's temporary file, and never a PNG.
C18_CleanupRemovesOwnTmpOnly ==
    /\ [](\A c, d \in Calls :
             (c # d /\ HoldsTmp(c) /\ HoldsTmp(d)) =>
                 /\ tmp_html_path[c] # tmp_html_path[d]
                 /\ \E f \in HtmlBy(c) : f.path = tmp_html_path[c])
    /\ [][\A f \in files :
             (\A g \in files' : g.path # f.path) =>
                 /\ f.kind # "png"
                 /\ \E c \in Calls :
                       /\ pc[c] = "finally" /\ pc'[c] # "finally"
                       /\ f.path = tmp_html_path[c] /\ f.by = c]_vars

\* C18 witness: one capture has cleaned up and ended while the other still
\* holds its temporary file and a PNG is in the directory.
C18_Witness ==
    \E c, d \in Calls :
        /\ Ended(c) /\ hist[c].tmpGone = 1
        /\ HoldsTmp(d) /\ (\E f \in HtmlBy(d) : f.path = tmp_html_path[d])
        /\ PngBy(c) # {}

=============================================================================
